---------------------------- MODULE Spec2Model ----------------------------
(***************************************************************************)
(* Magnum::Math::MathTypeTraits (src/src/Math/MathTypeTraits.h).           *)
(*                                                                         *)
(* The header resolves, per scalar type T, a specialization of             *)
(* MathTypeTraits<T> and through it three members: the typedef             *)
(* FloatingPointType, the function epsilon() and the function equals(a,b). *)
(* The model has the template resolution as operators over type names,     *)
(* the integer values as two's complement bit strings of the type's real   *)
(* width, the floating-point values as values of a reduced binary format   *)
(* with IEEE-754 semantics (round to nearest, ties to even; infinities;    *)
(* NaN), and a set of callers, each of which instantiates and calls one    *)
(* member at a time on the arguments fixed in the initial state.           *)
(***************************************************************************)
EXTENDS Integers, Sequences, FiniteSets

(***************************************************************************)
(* State.                                                                  *)
(***************************************************************************)
\* The threads that use the traits.
Callers == {1, 2}

\* type, a, b: the type T and the two values of T the callers pass.
\* call[c]: the member caller c has instantiated and called, or "none".
\* ret[c]:  what that gave caller c.
VARIABLES type, a, b, call, ret

vars == <<type, a, b, call, ret>>

(***************************************************************************)
(* Bounds of the model.                                                    *)
(***************************************************************************)
\* Low-order bits of an integer argument that range over every pattern.
LowBits == 2

\* Significand width, in bits, of the reduced floating-point format.
PrecisionBits == 2

\* Binades of the reduced format that lie below the equality precision:
\* the format's quantum is (equality precision) / 2^SubEpsilonBinades.
SubEpsilonBinades == 3

\* Largest exponent of the reduced format, counted in binades above the
\* quantum: the largest finite value is (2^PrecisionBits - 1) * 2^MaxBinade.
MaxBinade == 4

(***************************************************************************)
(* Scalar types.                                                           *)
(***************************************************************************)
\* The integral types the header specializes MathTypeTraits for.
IntegralTypes ==
    {"uint8_t", "int8_t", "uint16_t", "int16_t",
     "uint32_t", "int32_t", "uint64_t", "int64_t"}

\* The floating-point types the header specializes MathTypeTraits for.
FloatingTypes == {"float", "double", "long double"}

\* Every type with an explicit specialization.
RegisteredTypes == IntegralTypes \cup FloatingTypes

\* A scalar type with no specialization: char is a type distinct from both
\* signed char (int8_t) and unsigned char (uint8_t), so MathTypeTraits<char>
\* selects the primary template.
UnregisteredTypes == {"char"}

Types == RegisteredTypes \cup UnregisteredTypes

\* Width in bits of an integer type, as its name fixes it (<cstdint>).
BitWidth(T) ==
    CASE T \in {"uint8_t", "int8_t", "char"} -> 8
      [] T \in {"uint16_t", "int16_t"} -> 16
      [] T \in {"uint32_t", "int32_t"} -> 32
      [] T \in {"uint64_t", "int64_t"} -> 64

IsSigned(T) == T \in {"int8_t", "int16_t", "int32_t", "int64_t"}

\* Significand width in bits (hidden bit included) of the floating-point
\* types: IEEE-754 binary32, binary64 and the x87 extended format.
SignificandBits(F) ==
    CASE F = "float" -> 24
      [] F = "double" -> 53
      [] F = "long double" -> 64

\* Width in bits of the value representation of the floating-point types.
StorageBits(F) ==
    CASE F = "float" -> 32
      [] F = "double" -> 64
      [] F = "long double" -> 80

(***************************************************************************)
(* Integer values: bit strings, most significant bit first.                *)
(***************************************************************************)
\* Bit i of a prefix of length n: all zeros, all ones, 100..0 or 011..1.
PrefixBit(p, i) ==
    CASE p = 1 -> 0
      [] p = 2 -> 1
      [] p = 3 -> IF i = 1 THEN 1 ELSE 0
      [] p = 4 -> IF i = 1 THEN 0 ELSE 1

\* The integer arguments of width w: one of the four prefixes above followed
\* by every pattern of LowBits bits.  They include 0, 1, 2, the largest
\* and the smallest value of the signed and of the unsigned type of width w.
IntValues(w) ==
    { [i \in 1..w |-> IF i <= w - LowBits THEN PrefixBit(p, i)
                                            ELSE low[i - (w - LowBits)]] :
        p \in 1..4, low \in [1..LowBits -> {0, 1}] }

\* T(1): the literal 1 converted to the integer type of width w.
IntOne(w) == [i \in 1..w |-> IF i = w THEN 1 ELSE 0]

(***************************************************************************)
(* Conversions between an integer type and a floating-point type, for      *)
(* normalization.  The floating-point value of an integer of width w is    *)
(* kept exactly, as a sign and a magnitude of w + 1 bits: the magnitude    *)
(* can reach 2^w when the conversion rounds up.  No exponent of the three  *)
(* formats is exceeded by 2^64.                                            *)
(***************************************************************************)
\* x with 2^(w - pos) added: a carry runs from bit pos towards bit 1.
AddAt(w, x, pos) ==
    [i \in 1..w |-> IF i <= pos /\ (\A j \in (i + 1)..pos : x[j] = 1)
                    THEN 1 - x[i] ELSE x[i]]

\* Two's complement negation in w bits.
Negate(w, x) == AddAt(w, [i \in 1..w |-> 1 - x[i]], w)

IsNegative(T, x) == IsSigned(T) /\ x[1] = 1

\* |x| as an unsigned number of BitWidth(T) bits.
Magnitude(T, x) == IF IsNegative(T, x) THEN Negate(BitWidth(T), x) ELSE x

\* Index of the most significant set bit of m, w + 1 when m is zero.
Msb(w, m) ==
    IF \A i \in 1..w : m[i] = 0 THEN w + 1
    ELSE CHOOSE i \in 1..w : m[i] = 1 /\ (\A j \in 1..(i - 1) : m[j] = 0)

\* static_cast<F>(x) for x of the integer type T: exact when the magnitude
\* has at most SignificandBits(F) significant bits, else rounded to that
\* many, to nearest, a tie to the even significand.
IntToFloating(T, x, F) ==
    LET w    == BitWidth(T)
        m    == Magnitude(T, x)
        h    == Msb(w, m)
        k    == h + SignificandBits(F) - 1
        kept == [i \in 1..(w + 1) |->
                    IF i = 1 \/ i - 1 > k THEN 0 ELSE m[i - 1]]
        up   == /\ k < w
                /\ m[k + 1] = 1
                /\ (m[k] = 1 \/ \E j \in (k + 2)..w : m[j] = 1)
    IN  [neg |-> IsNegative(T, x),
         mag |-> IF up THEN AddAt(w + 1, kept, k + 1) ELSE kept]

\* The outcomes of static_cast<T>(f) for an integral f of the floating-point
\* type: the value when T can represent it; otherwise the behavior is
\* undefined ([conv.fpint]) and any value of T may come out.
FloatingToInt(T, f) ==
    LET w    == BitWidth(T)
        low  == [i \in 1..w |-> f.mag[i + 1]]
        zero == \A i \in 1..(w + 1) : f.mag[i] = 0
        fits == IF ~IsSigned(T) THEN f.mag[1] = 0 /\ (~f.neg \/ zero)
                ELSE IF ~f.neg THEN f.mag[1] = 0 /\ f.mag[2] = 0
                ELSE f.mag[1] = 0 /\
                     (f.mag[2] = 0 \/ \A i \in 3..(w + 1) : f.mag[i] = 0)
    IN  IF ~fits THEN IntValues(w)
        ELSE IF f.neg THEN {Negate(w, low)}
        ELSE {low}

\* x converted to F and back to T.
RoundTrip(T, x, F) == FloatingToInt(T, IntToFloating(T, x, F))

(***************************************************************************)
(* Floating-point values of the reduced format.                            *)
(*                                                                         *)
(* A finite value is a whole number v of quanta; it is representable when  *)
(* |v| = m * 2^e with m < 2^PrecisionBits and e <= MaxBinade.  The two     *)
(* zeros are one value: they compare equal and have the same absolute      *)
(* value, so nothing below tells them apart.  All NaNs are one value.      *)
(* float, double and long double share the reduced format and differ in    *)
(* its scale (UnitExp10), which puts the default equality precision of     *)
(* each type SubEpsilonBinades binades above the quantum: below the        *)
(* precision the format resolves differences finer than it, above it       *)
(* there are binades whose neighbours are a precision or more apart, and   *)
(* differences beyond the largest finite value overflow to an infinity.    *)
(* The arithmetic is that of the default rounding mode (to nearest).       *)
(***************************************************************************)
Fin(v) == [k |-> "fin", v |-> v]

Inf(s) == [k |-> "inf", v |-> s]

NaN == [k |-> "nan", v |-> 0]

MaxFinite == (2 ^ PrecisionBits - 1) * 2 ^ MaxBinade

Magnitudes == { m * 2 ^ e : m \in 0..(2 ^ PrecisionBits - 1), e \in 0..MaxBinade }

FiniteValues == { Fin(v) : v \in Magnitudes } \cup { Fin(0 - v) : v \in Magnitudes }

FloatValues == FiniteValues \cup {Inf(1), Inf(-1), NaN}

IsFinite(x) == x.k = "fin"

AbsInt(n) == IF n < 0 THEN 0 - n ELSE n

\* Unit in the last place of the binade that holds the magnitude q.
RECURSIVE Ulp(_)
Ulp(q) == IF q < 2 ^ PrecisionBits THEN 1 ELSE 2 * Ulp(q \div 2)

\* The magnitude num/den rounded to the format: to the nearest representable
\* magnitude, a tie to the one with the even significand.
RoundMagnitude(num, den) ==
    LET q    == num \div den
        u    == Ulp(q)
        lo   == (q \div u) * u
        rest == 2 * (num - lo * den)
    IN  IF rest < u * den THEN lo
        ELSE IF rest > u * den THEN lo + u
        ELSE IF (lo \div u) % 2 = 0 THEN lo ELSE lo + u

\* Variant: directed rounding towards plus infinity (FE_UPWARD).
RoundUpward(num, den) ==
    LET q  == AbsInt(num) \div den
        u  == Ulp(q)
        lo == (q \div u) * u
        r  == IF lo * den = AbsInt(num) THEN lo
              ELSE IF num < 0 THEN lo ELSE lo + u
    IN  IF r > MaxFinite THEN Inf(IF num < 0 THEN -1 ELSE 1)
        ELSE Fin(IF num < 0 THEN 0 - r ELSE r)

\* The rational num/den (den > 0) as a value of the format (IEEE-754
\* roundTiesToEven): rounded as if the exponent were unbounded, then
\* replaced by an infinity when the result exceeds the largest finite value.
RoundNearestEven(num, den) ==
    LET r == RoundMagnitude(AbsInt(num), den)
    IN  IF r > MaxFinite THEN Inf(IF num < 0 THEN -1 ELSE 1)
        ELSE Fin(IF num < 0 THEN 0 - r ELSE r)

\* Variant: the difference of two infinities of one sign taken to be zero.
FloatSub_InfMinusInfIsZero(x, y) ==
    IF x.k = "nan" \/ y.k = "nan" THEN NaN
    ELSE IF x.k = "inf" /\ y.k = "inf" THEN (IF x.v = y.v THEN Fin(0) ELSE x)
    ELSE IF x.k = "inf" THEN x
    ELSE IF y.k = "inf" THEN Inf(0 - y.v)
    ELSE RoundNearestEven(x.v - y.v, 1)

\* a - b of the floating-point type.
FloatSub(x, y) ==
    IF x.k = "nan" \/ y.k = "nan" THEN NaN
    ELSE IF x.k = "inf" /\ y.k = "inf" THEN (IF x.v = y.v THEN NaN ELSE x)
    ELSE IF x.k = "inf" THEN x
    ELSE IF y.k = "inf" THEN Inf(0 - y.v)
    ELSE RoundNearestEven(x.v - y.v, 1)

\* std::abs of the floating-point type.
FloatAbs(x) ==
    CASE x.k = "nan" -> NaN
      [] x.k = "inf" -> Inf(1)
      [] x.k = "fin" -> Fin(AbsInt(x.v))

\* x < y of the floating-point type: false when an operand is NaN.
FloatLess(x, y) ==
    IF x.k = "nan" \/ y.k = "nan" THEN FALSE
    ELSE IF x.k = "inf" THEN x.v = -1 /\ ~(y.k = "inf" /\ y.v = -1)
    ELSE IF y.k = "inf" THEN y.v = 1
    ELSE x.v < y.v

(***************************************************************************)
(* The equality precisions (lines 25-41).  A literal mant * 10^exp10 is    *)
(* kept as written; FromLiteral converts it to the floating-point type.    *)
(***************************************************************************)
FLOAT_EQUALITY_PRECISION == [mant |-> 1, exp10 |-> -6]

\* Variant: the double precision given the float literal.
DOUBLE_EQUALITY_PRECISION_AsFloat == [mant |-> 1, exp10 |-> -6]

DOUBLE_EQUALITY_PRECISION == [mant |-> 1, exp10 |-> -12]

LONG_DOUBLE_EQUALITY_PRECISION == [mant |-> 1, exp10 |-> -18]

\* The decimal scale of the reduced format of F: its quantum is
\* 10^UnitExp10(F) / 2^SubEpsilonBinades.
UnitExp10(F) ==
    CASE F = "float" -> -6
      [] F = "double" -> -12
      [] F = "long double" -> -18

\* The conversion of a floating literal to F: the literal's value in quanta
\* of F, rounded to the format.
FromLiteral(F, lit) ==
    LET d == lit.exp10 - UnitExp10(F)
    IN  IF d >= 0
        THEN RoundNearestEven(lit.mant * 2 ^ SubEpsilonBinades * 10 ^ d, 1)
        ELSE RoundNearestEven(lit.mant * 2 ^ SubEpsilonBinades, 10 ^ (0 - d))

(***************************************************************************)
(* Template resolution.                                                    *)
(***************************************************************************)
\* The helper MathTypeTraits<T> derives from: the explicit specializations
\* name theirs, every other type gets the primary template's.
Base(T) ==
    IF T \in IntegralTypes THEN "MathTypeTraitsIntegral"
    ELSE IF T \in FloatingTypes THEN "MathTypeTraitsFloatingPoint"
    ELSE "MathTypeTraitsDefault"

\* Variant: the default helper left without equals, so that only the
\* helpers of the specializations provide one.
BaseMembers_NoDefaultEquals(base) ==
    CASE base = "MathTypeTraitsDefault" -> {}
      [] base = "MathTypeTraitsIntegral" -> {"epsilon", "equals"}
      [] base = "MathTypeTraitsFloatingPoint" -> {"equals"}

\* The members a helper provides, its own and its base's.
BaseMembers(base) ==
    CASE base = "MathTypeTraitsDefault" -> {"equals"}
      [] base = "MathTypeTraitsIntegral" -> {"epsilon", "equals"}
      [] base = "MathTypeTraitsFloatingPoint" -> {"equals"}

\* The members MathTypeTraits<T> declares itself.  The primary template
\* declares its three only under DOXYGEN_GENERATING_OUTPUT, so none in a
\* build.
OwnMembers(T) ==
    IF T \in IntegralTypes THEN {"FloatingPointType"}
    ELSE IF T \in FloatingTypes THEN {"FloatingPointType", "epsilon"}
    ELSE {}

\* The members name lookup finds in MathTypeTraits<T>.
Members(T) == OwnMembers(T) \cup BaseMembers(Base(T))

\* The arguments equals accepts for T.
Values(T) == IF T \in FloatingTypes THEN FloatValues ELSE IntValues(BitWidth(T))

(***************************************************************************)
(* The three members.                                                      *)
(***************************************************************************)
\* Variant: the 32-bit integers mapped to float.
FloatingPointType_Int32ToFloat(T) ==
    CASE T \in {"uint8_t", "int8_t", "uint16_t", "int16_t"} -> "float"
      [] T \in {"uint32_t", "int32_t"} -> "float"
      [] T \in {"uint64_t", "int64_t"} -> "long double"
      [] T \in FloatingTypes -> T

\* Variant: the 64-bit integers mapped to double.
FloatingPointType_Int64ToDouble(T) ==
    CASE T \in {"uint8_t", "int8_t", "uint16_t", "int16_t"} -> "float"
      [] T \in {"uint32_t", "int32_t"} -> "double"
      [] T \in {"uint64_t", "int64_t"} -> "double"
      [] T \in FloatingTypes -> T

\* MathTypeTraits<T>::FloatingPointType of the explicit specializations.
FloatingPointType(T) ==
    CASE T \in {"uint8_t", "int8_t", "uint16_t", "int16_t"} -> "float"
      [] T \in {"uint32_t", "int32_t"} -> "double"
      [] T \in {"uint64_t", "int64_t"} -> "long double"
      [] T \in FloatingTypes -> T

\* Implementation::MathTypeTraitsIntegral<T>::epsilon().
MathTypeTraitsIntegral_epsilon(T) == IntOne(BitWidth(T))

\* MathTypeTraits<float|double|long double>::epsilon().
MathTypeTraitsFloat_epsilon(T) ==
    CASE T = "float" -> FromLiteral("float", FLOAT_EQUALITY_PRECISION)
      [] T = "double" -> FromLiteral("double", DOUBLE_EQUALITY_PRECISION)
      [] T = "long double" -> FromLiteral("long double", LONG_DOUBLE_EQUALITY_PRECISION)

\* MathTypeTraits<T>::epsilon() of a type that has the member.
epsilon(T) ==
    IF T \in IntegralTypes THEN MathTypeTraitsIntegral_epsilon(T)
    ELSE MathTypeTraitsFloat_epsilon(T)

\* Variant: integers compared within epsilon, so that neighbours are equal.
MathTypeTraitsDefault_equals_Tolerant(x, y) ==
    \/ x = y
    \/ y = AddAt(Len(x), x, Len(x))
    \/ x = AddAt(Len(y), y, Len(y))

\* Implementation::MathTypeTraitsDefault<T>::equals(a, b).
MathTypeTraitsDefault_equals(x, y) == x = y

\* Variant: the comparison with <= in place of <.
MathTypeTraitsFloatingPoint_equals_NonStrict(T, x, y) ==
    LET d == FloatAbs(FloatSub(x, y))
    IN  FloatLess(d, epsilon(T)) \/ d = epsilon(T)

\* Variant: the tolerance scaled by the larger magnitude (a relative test).
MathTypeTraitsFloatingPoint_equals_Relative(T, x, y) ==
    LET d == FloatAbs(FloatSub(x, y))
        m == IF AbsInt(x.v) > AbsInt(y.v) THEN AbsInt(x.v) ELSE AbsInt(y.v)
    IN  IF IsFinite(x) /\ IsFinite(y) /\ IsFinite(d)
        THEN d.v * 2 ^ SubEpsilonBinades < epsilon(T).v * m
        ELSE FloatLess(d, epsilon(T))

\* Variant: the tolerance kept in storage shared by the callers, and spent
\* by the first of them.
MathTypeTraitsFloatingPoint_equals_SharedTolerance(T, x, y) ==
    FloatLess(FloatAbs(FloatSub(x, y)),
              IF \E c \in Callers : call[c] = "equals" THEN Fin(0) ELSE epsilon(T))

\* Implementation::MathTypeTraitsFloatingPoint<T>::equals(a, b).
MathTypeTraitsFloatingPoint_equals(T, x, y) ==
    FloatLess(FloatAbs(FloatSub(x, y)), epsilon(T))

\* MathTypeTraits<T>::equals(a, b): the member of the base of T.
equals(T, x, y) ==
    IF Base(T) = "MathTypeTraitsFloatingPoint"
    THEN MathTypeTraitsFloatingPoint_equals(T, x, y)
    ELSE MathTypeTraitsDefault_equals(x, y)

(***************************************************************************)
(* The callers' steps.                                                     *)
(***************************************************************************)
\* A member that resolved and returned v.
Returned(v) == [ok |-> TRUE, val |-> v]

\* A member that does not exist for T: the program is ill-formed and the
\* build fails.
IllFormed == [ok |-> FALSE, val |-> "ill-formed"]

NoResult == [ok |-> FALSE, val |-> "none"]

Init ==
    /\ type \in Types
    /\ a \in Values(type)
    /\ b \in Values(type)
    /\ call = [c \in Callers |-> "none"]
    /\ ret = [c \in Callers |-> NoResult]

\* Caller c uses MathTypeTraits<type>::equals(a, b).
CallEquals(c) ==
    /\ call[c] = "none"
    /\ call' = [call EXCEPT ![c] = "equals"]
    /\ ret' = [ret EXCEPT ![c] =
                 IF "equals" \in Members(type) THEN Returned(equals(type, a, b))
                 ELSE IllFormed]
    /\ UNCHANGED <<type, a, b>>

\* Caller c uses MathTypeTraits<type>::epsilon().
CallEpsilon(c) ==
    /\ call[c] = "none"
    /\ call' = [call EXCEPT ![c] = "epsilon"]
    /\ ret' = [ret EXCEPT ![c] =
                 IF "epsilon" \in Members(type) THEN Returned(epsilon(type))
                 ELSE IllFormed]
    /\ UNCHANGED <<type, a, b>>

\* Caller c uses MathTypeTraits<type>::FloatingPointType.
CallFloatingPointType(c) ==
    /\ call[c] = "none"
    /\ call' = [call EXCEPT ![c] = "FloatingPointType"]
    /\ ret' = [ret EXCEPT ![c] =
                 IF "FloatingPointType" \in Members(type)
                 THEN Returned(FloatingPointType(type))
                 ELSE IllFormed]
    /\ UNCHANGED <<type, a, b>>

\* Caller c is done with the result and free to use the traits again.
Return(c) ==
    /\ call[c] # "none"
    /\ call' = [call EXCEPT ![c] = "none"]
    /\ ret' = [ret EXCEPT ![c] = NoResult]
    /\ UNCHANGED <<type, a, b>>

Next ==
    \E c \in Callers :
        \/ CallEquals(c)
        \/ CallEpsilon(c)
        \/ CallFloatingPointType(c)
        \/ Return(c)

Spec == Init /\ [][Next]_vars

(***************************************************************************)
(* Properties.                                                             *)
(***************************************************************************)
\* The callers that hold the result of member o.
Holding(o) == { c \in Callers : call[c] = o }

\* The integer n (0 <= n < 2^LowBits) as a value of the integer type T.
Small(T, n) ==
    [i \in 1..BitWidth(T) |->
        IF BitWidth(T) - i < LowBits THEN (n \div 2 ^ (BitWidth(T) - i)) % 2
        ELSE 0]

\* C1: for a floating-point type and finite a, b, equals(a, b) is true
\* exactly when the absolute value of the type's difference a - b is
\* strictly below the value epsilon() returns; a pair whose difference is
\* epsilon or more compares unequal, a pair equals accepts differs by less
\* than epsilon, whatever the magnitude of a and b.
C1_FloatEqualsIsStrictEpsilonTest ==
    \A c \in Holding("equals") :
        (type \in FloatingTypes /\ IsFinite(a) /\ IsFinite(b)) =>
            LET d == FloatAbs(FloatSub(a, b))
                e == epsilon(type)
            IN  /\ ret[c].ok
                /\ ret[c].val = (IsFinite(d) /\ d.v < e.v)
                /\ (AbsInt(a.v - b.v) >= e.v => ret[c].val = FALSE)
                /\ (ret[c].val = TRUE => AbsInt(a.v - b.v) < e.v)

\* C1 happens: two doubles so large that neighbours are one epsilon apart,
\* exactly one epsilon apart, compare unequal.
C1_Witness ==
    /\ type = "double"
    /\ call[1] = "equals"
    /\ IsFinite(a) /\ IsFinite(b)
    /\ b.v >= 2 ^ (PrecisionBits - 1) * epsilon(type).v
    /\ a.v - b.v = epsilon(type).v
    /\ ret[1].val = FALSE

\* C2: for an integral type, equals(a, b) is a == b exactly: true only for
\* identical values, and false for two values that differ by one.
C2_IntegralEqualsIsExact ==
    \A c \in Holding("equals") :
        type \in IntegralTypes =>
            /\ ret[c].ok
            /\ ret[c].val = (\A i \in 1..BitWidth(type) : a[i] = b[i])
            /\ (b = AddAt(BitWidth(type), a, BitWidth(type)) => ret[c].val = FALSE)
            /\ (a = AddAt(BitWidth(type), b, BitWidth(type)) => ret[c].val = FALSE)

\* C2 happens: equals(1, 2) of int32_t is false.
C2_Witness ==
    /\ type = "int32_t"
    /\ call[1] = "equals"
    /\ a = Small(type, 1)
    /\ b = Small(type, 2)
    /\ ret[1].val = FALSE

\* C3, as stated: for a type with no specialization every one of the three
\* members fails to build.
C3_Original ==
    \A c \in Callers :
        (type \notin RegisteredTypes /\ call[c] # "none") => ~ret[c].ok

\* C3, amended: for a type with no specialization FloatingPointType and
\* epsilon() fail to build, and equals(a, b) builds and is a == b.
C3_UnregisteredTypeKeepsExactEquals ==
    \A c \in Callers :
        type \notin RegisteredTypes =>
            /\ call[c] \in {"epsilon", "FloatingPointType"} => ret[c] = IllFormed
            /\ call[c] = "equals" => (ret[c].ok /\ ret[c].val = (a = b))

\* C3 happens: for char, equals has returned and epsilon has not built.
C3_Witness ==
    /\ type = "char"
    /\ call[1] = "equals" /\ ret[1].ok /\ ret[1].val = TRUE
    /\ call[2] = "epsilon" /\ ~ret[2].ok

\* C4: FloatingPointType is defined for each of the eleven types: float for
\* the 8- and 16-bit integers, double for the 32-bit ones, long double for
\* the 64-bit ones, the type itself for a floating-point type; it is always
\* a floating-point type, whose equals is the tolerance test (it accepts two
\* different values less than epsilon apart).
C4_CounterpartMapping ==
    \A c \in Holding("FloatingPointType") :
        type \in RegisteredTypes =>
            /\ ret[c].ok
            /\ ret[c].val \in FloatingTypes
            /\ type \in FloatingTypes => ret[c].val = type
            /\ (type \in IntegralTypes /\ BitWidth(type) <= 16) => ret[c].val = "float"
            /\ (type \in IntegralTypes /\ BitWidth(type) = 32) => ret[c].val = "double"
            /\ (type \in IntegralTypes /\ BitWidth(type) = 64) => ret[c].val = "long double"
            /\ Base(ret[c].val) = "MathTypeTraitsFloatingPoint"
            /\ equals(ret[c].val, Fin(0), Fin(1)) = TRUE
            /\ equals(ret[c].val, Fin(0), epsilon(ret[c].val)) = FALSE

\* C4 happens: the counterpart of uint64_t is long double.
C4_Witness ==
    /\ type = "uint64_t"
    /\ call[2] = "FloatingPointType"
    /\ ret[2] = Returned("long double")

\* C5: epsilon() depends on the type alone: 1 for the eight integral types,
\* 1e-6 for float, 1e-12 for double and 1e-18 for long double; every caller
\* gets that value, whatever was called before.
C5_EpsilonPerType ==
    \A c \in Holding("epsilon") :
        type \in RegisteredTypes =>
            /\ ret[c].ok
            /\ type \in IntegralTypes =>
                   ret[c].val = [i \in 1..BitWidth(type) |->
                                    IF i = BitWidth(type) THEN 1 ELSE 0]
            /\ type = "float" =>
                   ret[c].val = FromLiteral("float", [mant |-> 1, exp10 |-> -6])
            /\ type = "double" =>
                   ret[c].val = FromLiteral("double", [mant |-> 1, exp10 |-> -12])
            /\ type = "long double" =>
                   ret[c].val = FromLiteral("long double", [mant |-> 1, exp10 |-> -18])
            /\ type \in FloatingTypes => (IsFinite(ret[c].val) /\ ret[c].val.v > 0)

\* C5 happens: one caller holds the result of equals on doubles and the
\* other gets 1e-12 from epsilon().
C5_Witness ==
    /\ type = "double"
    /\ call[1] = "equals"
    /\ call[2] = "epsilon"
    /\ ret[2] = Returned(Fin(2 ^ SubEpsilonBinades))

\* C6: equals(a, b) is equals(b, a) for every type with a specialization,
\* infinities and NaN included.
C6_Symmetry ==
    \A c \in Holding("equals") :
        type \in RegisteredTypes => (ret[c].ok /\ ret[c].val = equals(type, b, a))

\* C6 happens: a float pair whose difference is rounded, compared equal.
C6_Witness ==
    /\ type = "float"
    /\ call[1] = "equals"
    /\ IsFinite(a) /\ IsFinite(b)
    /\ FloatSub(a, b) # Fin(a.v - b.v)
    /\ ret[1].val = TRUE

\* C7: equals(a, a) is true for every type with a specialization and every
\* finite a.
C7_Reflexivity ==
    \A c \in Holding("equals") :
        (type \in RegisteredTypes /\ a = b /\ (type \in FloatingTypes => IsFinite(a)))
            => (ret[c].ok /\ ret[c].val = TRUE)

\* C7 happens: equals(0, 0) of long double is true.
C7_Witness ==
    /\ type = "long double"
    /\ call[1] = "equals"
    /\ a = Fin(0) /\ b = Fin(0)
    /\ ret[1].val = TRUE

\* What a step of caller c may change: its own call and result.
OnlyChanges(c) ==
    /\ type' = type /\ a' = a /\ b' = b
    /\ \A d \in Callers \ {c} : call'[d] = call[d] /\ ret'[d] = ret[d]

\* C8: a call changes nothing but the caller's own result, and its result is
\* a function of the member, the type and the arguments: any two callers of
\* the same member hold the same result, whatever ran before or meanwhile.
C8_PureAndStateless ==
    /\ [](\A c, d \in Callers :
            (call[c] # "none" /\ call[c] = call[d]) => ret[c] = ret[d])
    /\ [][\A c \in Callers : call'[c] # call[c] => OnlyChanges(c)]_vars

\* C8 happens: both callers hold the result of equals on the same arguments.
C8_Witness ==
    /\ type = "float"
    /\ call[1] = "equals" /\ call[2] = "equals"
    /\ ret[1].ok /\ ret[2].ok
    /\ a # b

\* C9: for a floating-point type equals(a, b) is false when a or b is NaN
\* or an infinity.
C9_NonFiniteComparesUnequal ==
    \A c \in Holding("equals") :
        (type \in FloatingTypes /\ (~IsFinite(a) \/ ~IsFinite(b)))
            => (ret[c].ok /\ ret[c].val = FALSE)

\* C9 happens: equals(inf, inf) is false.
C9_Witness ==
    /\ type \in FloatingTypes
    /\ call[1] = "equals"
    /\ a = Inf(1) /\ b = Inf(1)
    /\ ret[1].val = FALSE

\* C10: for an integral type the counterpart is wider than the type, its
\* significand has at least as many bits as the type, no narrower
\* floating-point type is wider than the type, and every value of the type
\* converted to the counterpart and back is unchanged.
C10_CounterpartLosesNoBits ==
    \A c \in Holding("FloatingPointType") :
        type \in IntegralTypes =>
            LET F == ret[c].val
            IN  /\ ret[c].ok
                /\ BitWidth(type) <= SignificandBits(F)
                /\ StorageBits(F) > BitWidth(type)
                /\ \A G \in FloatingTypes :
                       StorageBits(G) < StorageBits(F) => StorageBits(G) <= BitWidth(type)
                /\ RoundTrip(type, a, F) = {a}
                /\ RoundTrip(type, b, F) = {b}

\* C10 happens: the largest uint64_t and the smallest int64_t bit pattern
\* survive the conversion to the counterpart and back.
C10_Witness ==
    /\ type = "uint64_t"
    /\ call[1] = "FloatingPointType"
    /\ \A i \in 1..64 : a[i] = 1
    /\ b = [i \in 1..64 |-> IF i = 1 THEN 1 ELSE 0]
    /\ RoundTrip(type, a, ret[1].val) = {a}

=============================================================================
